---- MODULE Spec2Model ----
(***************************************************************************)
(* A model of the Kraken DCA bot (src/main.py, src/discord_utils.py).      *)
(*                                                                         *)
(* One run of the program is one behaviour: the configuration is drawn in  *)
(* Init, the exchange and the Discord webhook are the environment, and     *)
(* each action is one step of __main__ with the reply it receives.         *)
(*                                                                         *)
(* Units.  Money (amount_eur, balances, ask prices) is counted in units of *)
(* 5e-9 EUR, so that the epsilon 1e-8 of the balance check is 2 units.     *)
(* Volumes are counted in units of 1e-8, the precision of round(v, 8).     *)
(* The clock is counted in milliseconds, the precision of get_nonce.       *)
(* Text is a sequence of one-character strings.                            *)
(***************************************************************************)
EXTENDS Integers, Sequences, FiniteSets, TLC

VARIABLES
    strategies,       \* config: the list of Strategy(pair, amount_eur)
    dry_run,          \* config: dca.dry_run
    discord_webhook,  \* config: logging.discord_webhook ("" when not set)
    pc,               \* the statement of __main__ / execute_strategies to run next
    idx,              \* position of `strat` in strategies (the for loop), 1-based
    price,            \* local of execute_strategies (line 164), 0 when unset
    volume,           \* local of execute_strategies (line 165), 0 when unset
    results,          \* local of execute_strategies: the list it returns
    total_required,   \* local of ensure_sufficient_funds (line 142)
    available_eur,    \* local of ensure_sufficient_funds (line 150), -1 when unset
    balance_reply,    \* what the Balance request came back with
    status_reply,     \* what the SystemStatus request came back with
    last_nonce,       \* the value get_nonce returned last, -1 if none
    sent_request,     \* the private request the last step sent, if it sent one
    last_reply,       \* the reply to the Balance, Ticker or AddOrder request of the last step
    sent_embed,       \* the embed the last step passed to send_discord_message, if any
    events,           \* exchange requests and notifier calls, in order
    last_delivery,    \* what became of the last send_discord_message call
    exit_code         \* the process exit status, -1 while it runs

vars == <<strategies, dry_run, discord_webhook, pc, idx, price, volume, results,
          total_required, available_eur, balance_reply, status_reply, last_nonce,
          sent_request, last_reply, sent_embed, events, last_delivery, exit_code>>

(***************************************************************************)
(* Bounds of the model.                                                    *)
(***************************************************************************)
MaxStrategies == 2
MaxClock == 1
\* Largest amount, in money units, given to eur_to_volume on its own.
MaxAmount == 20

(***************************************************************************)
(* Program constants.                                                      *)
(***************************************************************************)
\* 1e-8 EUR, in money units of 5e-9 EUR (line 152).
Epsilon == 2
\* round(volume, 8): volumes are kept in units of 10^-8 (line 124).
VolumeScale == 100000000

(***************************************************************************)
(* Input domains.                                                          *)
(***************************************************************************)
\* The strategies a configuration is made of: a pair identifier (one
\* alphanumeric, one with a reserved character) and an amount in money units.
Strategy == { [pair |-> <<"X", "E">>, amount_eur |-> 1],
              [pair |-> <<"X", "/", "E">>, amount_eur |-> 3] }
\* Balances the exchange may report for a currency code.
Balances == {0, 5}
\* Ask prices the exchange may report, in money units (0 makes the division
\* of eur_to_volume fault).
Prices == {0, 4, 40000}
ClockValues == 0..MaxClock

RECURSIVE SeqsUpTo(_, _)
SeqsUpTo(S, n) ==
    IF n = 0 THEN { <<>> }
    ELSE LET shorter == SeqsUpTo(S, n - 1)
         IN  shorter \cup { Append(s, x) : s \in { t \in shorter : Len(t) = n - 1 }, x \in S }

(***************************************************************************)
(* Text: str(), f-strings and URL encoding.                                *)
(***************************************************************************)
Digits == <<"0", "1", "2", "3", "4", "5", "6", "7", "8", "9">>
Letters == {"a", "b", "c", "d", "e", "f", "g", "h", "i", "j", "k", "l", "m",
            "n", "o", "p", "q", "r", "s", "t", "u", "v", "w", "x", "y", "z",
            "A", "B", "C", "D", "E", "F", "G", "H", "I", "J", "K", "L", "M",
            "N", "O", "P", "Q", "R", "S", "T", "U", "V", "W", "X", "Y", "Z"}

\* str(n) of a non-negative int.
RECURSIVE IntStr(_)
IntStr(n) ==
    IF n < 10 THEN << Digits[n + 1] >>
    ELSE Append(IntStr(n \div 10), Digits[(n % 10) + 1])

RECURSIVE StripZeros(_)
StripZeros(t) ==
    IF Len(t) > 1 /\ t[Len(t)] = "0" THEN StripZeros(SubSeq(t, 1, Len(t) - 1)) ELSE t

RECURSIVE Zeros(_)
Zeros(n) == IF n = 0 THEN <<>> ELSE <<"0">> \o Zeros(n - 1)

\* str(x) of the float x = v * 10^-8 (v >= 0): the shortest decimal that reads
\* back as x, in exponent form when x < 1e-4 (f"{value}" and urlencode's str(v)).
float_str(v) ==
    IF v = 0 THEN <<"0", ".", "0">>
    ELSE LET d     == IntStr(v)
             n     == Len(d)
             decpt == n - 8
             s     == StripZeros(d)
             m     == Len(s)
         IN  IF decpt <= -4
             THEN (IF m = 1 THEN s ELSE << s[1], "." >> \o SubSeq(s, 2, m))
                  \o <<"e", "-", "0">> \o IntStr(9 - n)
             ELSE IF decpt <= 0
             THEN <<"0", ".">> \o Zeros(-decpt) \o s
             ELSE SubSeq(d, 1, decpt) \o <<".">>
                  \o (IF m > decpt THEN SubSeq(s, decpt + 1, m) ELSE <<"0">>)

\* urllib.parse.quote_plus of one character: letters, digits and "_.-~" are
\* kept, a space becomes "+", anything else becomes its %XX escape.
quote_char(c) ==
    IF c \in Letters \/ c \in { Digits[i] : i \in 1..10 } \/ c \in {"_", ".", "-", "~"}
    THEN << c >>
    ELSE CASE c = " " -> <<"+">>
           [] c = "/" -> <<"%", "2", "F">>
           [] c = ":" -> <<"%", "3", "A">>
           [] c = "=" -> <<"%", "3", "D">>
           [] c = "&" -> <<"%", "2", "6">>
           [] c = "+" -> <<"%", "2", "B">>
           [] OTHER   -> <<"%", "?", "?">>

RECURSIVE quote_plus(_)
quote_plus(t) ==
    IF t = <<>> THEN <<>> ELSE quote_char(Head(t)) \o quote_plus(Tail(t))

\* '&'.join([f"{key}={value}" for key, value in post_data.items()]):
\* post_data is the list of (key, value) in insertion order, values as text.
RECURSIVE post_data_encoded(_)
post_data_encoded(post_data) ==
    IF post_data = <<>> THEN <<>>
    ELSE LET kv == Head(post_data)
         IN  kv[1] \o <<"=">> \o kv[2]
             \o (IF Len(post_data) > 1 THEN <<"&">> ELSE <<>>)
             \o post_data_encoded(Tail(post_data))

\* The body requests.post(url, data=post_data) sends: urlencode(post_data).
RECURSIVE request_body(_)
request_body(post_data) ==
    IF post_data = <<>> THEN <<>>
    ELSE LET kv == Head(post_data)
         IN  quote_plus(kv[1]) \o <<"=">> \o quote_plus(kv[2])
             \o (IF Len(post_data) > 1 THEN <<"&">> ELSE <<>>)
             \o request_body(Tail(post_data))

\* get_nonce: str(int(time.time() * 1000)), t being the clock read in ms.
get_nonce(t) == t

\* post_data of get_balance.
balance_post_data(nonce) ==
    << << <<"n", "o", "n", "c", "e">>, IntStr(nonce) >> >>

\* post_data of pass_market_order.
order_post_data(nonce, pair, vol) ==
    << << <<"n", "o", "n", "c", "e">>, IntStr(nonce) >>,
       << <<"o", "r", "d", "e", "r", "t", "y", "p", "e">>, <<"m", "a", "r", "k", "e", "t">> >>,
       << <<"t", "y", "p", "e">>, <<"b", "u", "y">> >>,
       << <<"v", "o", "l", "u", "m", "e">>, float_str(vol) >>,
       << <<"p", "a", "i", "r">>, pair >> >>

\* The digests and the base64 codec are terms over their arguments: equal
\* terms have equal arguments, b64decode undoes b64encode, and the byte
\* string a + b is the pair <<a, b>>.
sha256(text) == [fn |-> "sha256", of |-> text]
hmac_sha512(key, msg) == [fn |-> "hmac_sha512", key |-> key, msg |-> msg]
b64encode(bytes) == [fn |-> "b64encode", of |-> bytes]
b64decode(text) == text.of

\* KRAKEN_API_SECRET: the base64 text of the account's key bytes.
api_secret == b64encode("key-bytes")

sign(private_key, message) ==
    b64encode(hmac_sha512(b64decode(private_key), message))

\* The inner hash over data followed by nonce.
get_signature_data_first(private_key, data, nonce, path) ==
    sign(private_key, <<path, sha256(data \o nonce)>>)

get_signature(private_key, data, nonce, path) ==
    sign(private_key, <<path, sha256(nonce \o data)>>)

\* A private request as built by get_balance / pass_market_order: the text the
\* signature is computed over, the API-Sign header and the body that goes on
\* the wire.
private_request(path, post_data, nonce) ==
    [path |-> path,
     signed |-> post_data_encoded(post_data),
     sign |-> get_signature(api_secret, post_data_encoded(post_data), nonce, path),
     body |-> request_body(post_data)]

NoRequest == [path |-> "", signed |-> <<>>, sign |-> <<>>, body |-> <<>>]

(***************************************************************************)
(* The environment: what the exchange and the webhook may answer.          *)
(***************************************************************************)
\* The "result" object of a Balance reply: balances by currency code.
BalanceMaps == UNION { [codes -> Balances] : codes \in SUBSET {"ZEUR", "EUR"} }
BalanceReplies ==
    { [kind |-> "timeout", error |-> <<>>, result |-> <<>>],
      [kind |-> "json", error |-> <<"EAPI:Invalid key">>, result |-> <<>>] }
    \cup { [kind |-> "json", error |-> <<>>, result |-> m] : m \in BalanceMaps }

\* SystemStatus: a transport failure, or the status string of the reply
\* ("Unknown" is the default of line 62 when the reply carries none).
StatusReplies == {"transport_failure", "online", "maintenance", "Unknown"}

\* Ticker: a transport failure, a reply without the pair, an ask price that
\* is no number, or an ask price.
TickerReplies ==
    { [kind |-> k, ask |-> 0] : k \in {"timeout", "no_pair", "bad_ask"} }
    \cup { [kind |-> "ask", ask |-> p] : p \in Prices }

\* AddOrder: a timeout, a body that is no JSON, JSON that is no object, an
\* object whose "result" is no object, or an object with error and txid lists.
OrderReplies ==
    { [kind |-> k, error |-> <<>>, txid |-> <<>>] : k \in {"timeout", "not_json", "not_dict", "bad_result"} }
    \cup { [kind |-> "dict", error |-> <<"EOrder:Insufficient funds">>, txid |-> <<>>],
           [kind |-> "dict", error |-> <<>>, txid |-> <<"TX1">>] }

\* What happens to the webhook POST of send_discord_message.
Deliveries == {"ok", "http_error", "transport_error"}

(***************************************************************************)
(* The program's functions.                                                *)
(***************************************************************************)
\* sum(s.amount_eur for s in strategies), line 142.
RECURSIVE SumAmounts(_)
SumAmounts(strats) ==
    IF strats = <<>> THEN 0 ELSE Head(strats).amount_eur + SumAmounts(Tail(strats))

\* dict.get(key, default)
DictGet(dict, key, default) == IF key \in DOMAIN dict THEN dict[key] ELSE default

\* balances.get('ZEUR', balances.get('EUR', 0.0)), line 150.
AvailableEur(balances) == DictGet(balances, "ZEUR", DictGet(balances, "EUR", 0))

\* The comparison of line 152 with its operands swapped.
FundsInsufficientSwapped(available, required) == required + Epsilon < available

\* The comparison of line 152 without its epsilon.
FundsInsufficientNoEpsilon(available, required) == available < required

\* available_eur + 1e-8 < total_required, line 152.
FundsInsufficient(available, required) == available + Epsilon < required

\* A status check that only stops on "maintenance".
StatusNotMaintenance(status) == status # "maintenance"

\* status != "online" raises, lines 64-65.
StatusOnline(status) == status = "online"

\* send_discord_message without its try/except: a failing POST is raised.
send_discord_message_unguarded(webhook, d) ==
    IF webhook = ""
    THEN [delivery |-> "skipped", raised |-> FALSE]
    ELSE [delivery |-> d, raised |-> d = "transport_error"]

\* send_discord_message: nothing is posted without a webhook; a failing POST
\* is logged inside the try/except and never raised to the caller.
send_discord_message(webhook, d) ==
    IF webhook = ""
    THEN [delivery |-> "skipped", raised |-> FALSE]
    ELSE [delivery |-> d, raised |-> FALSE]

\* An except clause that catches transport errors only.
CaughtTransportOnly(exc) == exc = "RequestException"

\* The classes `except Exception` (line 195) catches, among those the loop
\* body can raise.
Caught(exc) ==
    exc \in {"RequestException", "KeyError", "ValueError", "AttributeError",
             "ZeroDivisionError", "TypeError"}

\* get_ask_price, lines 72-75.
get_ask_price(reply) ==
    CASE reply.kind = "timeout" -> [raised |-> "RequestException", value |-> 0]
      [] reply.kind = "no_pair" -> [raised |-> "KeyError", value |-> 0]
      [] reply.kind = "bad_ask" -> [raised |-> "ValueError", value |-> 0]
      [] OTHER                  -> [raised |-> "none", value |-> reply.ask]

\* n / d cut off instead of rounded.
RoundDown(n, d) == n \div d

\* round(n / d * 10^0) to the nearest integer, ties to even (Python's round).
RoundHalfEven(n, d) ==
    LET q == n \div d
        r == n % d
    IN  IF 2 * r < d THEN q
        ELSE IF 2 * r > d THEN q + 1
        ELSE IF q % 2 = 0 THEN q ELSE q + 1

\* eur_to_volume, lines 121-124: a second Ticker request, then
\* round(amount_eur / price, 8), here in units of 10^-8.
eur_to_volume(reply, amount_eur) ==
    LET p == get_ask_price(reply)
    IN  IF p.raised # "none" THEN p
        ELSE IF p.value = 0 THEN [raised |-> "ZeroDivisionError", value |-> 0]
        ELSE [raised |-> "none", value |-> RoundHalfEven(amount_eur * VolumeScale, p.value)]

\* The test of line 183 inverted.
order_outcome_inverted(reply) ==
    CASE reply.kind = "timeout"  -> [raised |-> "RequestException", event |-> "none"]
      [] reply.kind = "not_json" -> [raised |-> "ValueError", event |-> "none"]
      [] reply.kind = "not_dict" -> [raised |-> "AttributeError", event |-> "none"]
      [] OTHER ->
           IF reply.error = <<>> THEN [raised |-> "none", event |-> "order-failed"]
           ELSE [raised |-> "none", event |-> "order-success"]

\* Lines 182-193: what pass_market_order and the reading of its reply lead
\* to: the exception raised, or the event notified.
order_outcome(reply) ==
    CASE reply.kind = "timeout"  -> [raised |-> "RequestException", event |-> "none"]
      [] reply.kind = "not_json" -> [raised |-> "ValueError", event |-> "none"]
      [] reply.kind = "not_dict" -> [raised |-> "AttributeError", event |-> "none"]
      [] OTHER ->
           IF reply.error # <<>> THEN [raised |-> "none", event |-> "order-failed"]
           ELSE IF reply.kind = "bad_result" THEN [raised |-> "AttributeError", event |-> "none"]
           ELSE [raised |-> "none", event |-> "order-success"]

\* The entries of `events`: a request to the exchange (faulted: the call
\* raised instead of returning what its caller reads) or a call of
\* send_discord_message with the embed `what`; strat is the position of the
\* strategy being processed, 0 outside the loop.
Request(what, i, faulted) == [kind |-> "request", what |-> what, strat |-> i, faulted |-> faulted]
Notify(what, i) == [kind |-> "notify", what |-> what, strat |-> i, faulted |-> FALSE]

NoReply == [kind |-> "none"]

\* The embeds of discord_utils.py, by the values they are built from.
create_start_embed(strategy_count) ==
    [what |-> "run-started", strategy_count |-> strategy_count]
create_dry_run_embed(pair, amount_eur, est_price, vol) ==
    [what |-> "dry-run-result", pair |-> pair, amount_eur |-> amount_eur,
     price |-> est_price, volume |-> vol]
create_success_embed(pair, vol, est_price, txid) ==
    [what |-> "order-success", pair |-> pair, volume |-> vol, price |-> est_price, txid |-> txid]
create_error_embed(pair, vol, est_price, error) ==
    [what |-> "order-failed", pair |-> pair, volume |-> vol, price |-> est_price, error |-> error]
create_exception_embed(pair, error) ==
    [what |-> "exception", pair |-> pair, error |-> error]
create_completion_embed == [what |-> "run-completed"]
create_insufficient_funds_embed(required, available) ==
    [what |-> "insufficient-funds", required |-> required, available |-> available]
NoEmbed == [what |-> "none"]

\* The AddOrder request of pass_market_order (lines 98-118) for every clock
\* reading, pair and volume a run can call it with.
order_request ==
    [nonce \in { get_nonce(t) : t \in ClockValues },
     pair \in { s.pair : s \in Strategy },
     vol \in { eur_to_volume(reply, s.amount_eur).value : reply \in TickerReplies, s \in Strategy }
     |-> private_request("/0/private/AddOrder", order_post_data(nonce, pair, vol), IntStr(nonce))]

\* The loop body without the dry-run branch.
AfterVolumeNoDryRun(dry) == "order"

\* Line 168: where the loop body goes once the volume is known.
AfterVolume(dry) == IF dry THEN "report" ELSE "order"

\* results.insert(0, record) in place of append.
results_prepend(res, record) == <<record>> \o res

\* results.append(record), lines 173 and 194.
results_append(res, record) == Append(res, record)

(***************************************************************************)
(* Initial states: any configuration, nothing done yet.                    *)
(***************************************************************************)
Init ==
    /\ strategies \in SeqsUpTo(Strategy, MaxStrategies)
    /\ dry_run \in BOOLEAN
    /\ discord_webhook \in {"", "https://discord/webhook"}
    /\ pc = "gate"
    /\ idx = 0
    /\ price = 0
    /\ volume = 0
    /\ results = <<>>
    /\ total_required = 0
    /\ available_eur = -1
    /\ balance_reply = "none"
    /\ status_reply = "none"
    /\ last_nonce = -1
    /\ sent_request = NoRequest
    /\ last_reply = NoReply
    /\ sent_embed = NoEmbed
    /\ events = <<>>
    /\ last_delivery = "none"
    /\ exit_code = -1

config == <<strategies, dry_run, discord_webhook>>

\* The process ends with the given status (SystemExit or an uncaught
\* exception give 1, falling off the end of __main__ gives 0).
Exit(code) == pc' = "exit" /\ exit_code' = code

(***************************************************************************)
(* ensure_sufficient_funds, lines 141-156 (with get_balance, 127-138).     *)
(***************************************************************************)
EnsureSufficientFunds ==
    /\ pc = "gate"
    /\ \E t \in ClockValues, reply \in BalanceReplies, d \in Deliveries :
         LET nonce == get_nonce(t)
             sent  == Append(events, Request("Balance", 0, reply.kind = "timeout"))
             msg   == send_discord_message(discord_webhook, d)
         IN  /\ total_required' = SumAmounts(strategies)
             /\ last_nonce' = nonce
             /\ last_reply' = reply
             /\ sent_request' = private_request("/0/private/Balance", balance_post_data(nonce),
                                                IntStr(nonce))
             /\ IF reply.kind = "timeout"
                THEN \* requests.post raises: nothing catches it
                     /\ balance_reply' = "transport_failure"
                     /\ events' = sent
                     /\ sent_embed' = NoEmbed
                     /\ Exit(1)
                     /\ UNCHANGED <<available_eur, last_delivery>>
                ELSE IF reply.error # <<>>
                THEN /\ balance_reply' = "error_list"
                     /\ events' = Append(sent, Notify("exception", 0))
                     /\ sent_embed' = create_exception_embed(<<"A", "L", "L">>, "Balance fetch failed")
                     /\ last_delivery' = msg.delivery
                     /\ Exit(1)
                     /\ UNCHANGED available_eur
                ELSE /\ balance_reply' = "result"
                     /\ available_eur' = AvailableEur(reply.result)
                     /\ IF FundsInsufficient(available_eur', total_required')
                        THEN /\ events' = Append(sent, Notify("insufficient-funds", 0))
                             /\ sent_embed' = create_insufficient_funds_embed(total_required', available_eur')
                             /\ last_delivery' = msg.delivery
                             /\ Exit(1)
                        ELSE /\ events' = sent
                             /\ sent_embed' = NoEmbed
                             /\ pc' = "start"
                             /\ UNCHANGED <<last_delivery, exit_code>>
    /\ UNCHANGED <<config, idx, price, volume, results, status_reply>>

(***************************************************************************)
(* __main__, lines 226-228: the start message.                             *)
(***************************************************************************)
SendStart ==
    /\ pc = "start"
    /\ \E d \in Deliveries :
         LET msg == send_discord_message(discord_webhook, d)
         IN  /\ events' = Append(events, Notify("run-started", 0))
             /\ sent_embed' = create_start_embed(Len(strategies))
             /\ last_delivery' = msg.delivery
             /\ IF msg.raised THEN Exit(1) ELSE pc' = "status" /\ UNCHANGED exit_code
    /\ sent_request' = NoRequest
    /\ last_reply' = NoReply
    /\ UNCHANGED <<config, idx, price, volume, results, total_required, available_eur,
                   balance_reply, status_reply, last_nonce>>

(***************************************************************************)
(* check_kraken_status, lines 60-65, and the entry of the loop, line 161.  *)
(***************************************************************************)
CheckKrakenStatus ==
    /\ pc = "status"
    /\ \E reply \in StatusReplies :
         /\ status_reply' = reply
         /\ events' = Append(events, Request("SystemStatus", 0, reply = "transport_failure"))
         /\ IF reply = "transport_failure" \/ ~StatusOnline(reply)
            THEN Exit(1) /\ UNCHANGED idx
            ELSE /\ UNCHANGED exit_code
                 /\ IF strategies = <<>>
                    THEN pc' = "complete" /\ UNCHANGED idx
                    ELSE pc' = "price" /\ idx' = 1
    /\ sent_request' = NoRequest
    /\ last_reply' = NoReply
    /\ sent_embed' = NoEmbed
    /\ UNCHANGED <<config, price, volume, results, total_required, available_eur,
                   balance_reply, last_nonce, last_delivery>>

(***************************************************************************)
(* execute_strategies, lines 159-199, one action per statement that talks  *)
(* to the exchange.  `strat` is strategies[idx].                           *)
(***************************************************************************)
\* The loop left after the first strategy it has dealt with.
NextStrategyBreak ==
    /\ price' = 0
    /\ volume' = 0
    /\ idx' = idx + 1
    /\ pc' = "complete"
    /\ UNCHANGED exit_code

\* The loop moves to the next strategy, or returns when there is none; the
\* locals price and volume are assigned again before they are next read.
NextStrategy ==
    /\ price' = 0
    /\ volume' = 0
    /\ idx' = idx + 1
    /\ pc' = IF idx < Len(strategies) THEN "price" ELSE "complete"
    /\ UNCHANGED exit_code

\* A handler that notifies and then raises the exception again.
ExceptReraise(ev, exc, d) ==
    /\ events' = Append(ev, Notify("exception", idx))
    /\ sent_embed' = create_exception_embed(strategies[idx].pair, exc)
    /\ last_delivery' = send_discord_message(discord_webhook, d).delivery
    /\ Exit(1)
    /\ UNCHANGED <<idx, price, volume>>

\* A handler that notifies and then tries the same strategy again.
ExceptRetry(ev, exc, d) ==
    /\ events' = Append(ev, Notify("exception", idx))
    /\ sent_embed' = create_exception_embed(strategies[idx].pair, exc)
    /\ last_delivery' = send_discord_message(discord_webhook, d).delivery
    /\ price' = 0
    /\ volume' = 0
    /\ pc' = "price"
    /\ UNCHANGED <<idx, exit_code>>

\* A handler that only logs.
ExceptSilent(ev, exc, d) ==
    /\ events' = ev
    /\ sent_embed' = NoEmbed
    /\ NextStrategy
    /\ UNCHANGED last_delivery

\* Exception exc is raised inside the try block, after the events ev: the
\* handler of lines 195-198 notifies it, when it is one the except clause
\* catches; otherwise it leaves execute_strategies and ends the process.
Except(ev, exc, d) ==
    IF Caught(exc)
    THEN LET msg == send_discord_message(discord_webhook, d)
         IN  /\ events' = Append(ev, Notify("exception", idx))
             /\ sent_embed' = create_exception_embed(strategies[idx].pair, exc)
             /\ last_delivery' = msg.delivery
             /\ IF msg.raised
                THEN Exit(1) /\ UNCHANGED <<idx, price, volume>>
                ELSE NextStrategy
    ELSE /\ events' = ev
         /\ sent_embed' = NoEmbed
         /\ Exit(1)
         /\ UNCHANGED <<idx, price, volume, last_delivery>>

\* Line 164: price = get_ask_price(strat.pair).
FetchPrice ==
    /\ pc = "price"
    /\ \E reply \in TickerReplies, d \in Deliveries :
         LET got  == get_ask_price(reply)
             sent == Append(events, Request("Ticker", idx, got.raised # "none"))
         IN  /\ last_reply' = reply
             /\ IF got.raised = "none"
                THEN /\ price' = got.value
                     /\ pc' = "volume"
                     /\ events' = sent
                     /\ sent_embed' = NoEmbed
                     /\ UNCHANGED <<idx, volume, last_delivery, exit_code>>
                ELSE Except(sent, got.raised, d)
    /\ sent_request' = NoRequest
    /\ UNCHANGED <<config, results, total_required, available_eur, balance_reply,
                   status_reply, last_nonce>>

\* Lines 165-168: volume = eur_to_volume(strat.pair, strat.amount_eur),
\* then the branch on dry_run.
ComputeVolume ==
    /\ pc = "volume"
    /\ \E reply \in TickerReplies, d \in Deliveries :
         LET got  == eur_to_volume(reply, strategies[idx].amount_eur)
             sent == Append(events, Request("Ticker", idx, got.raised # "none"))
         IN  /\ last_reply' = reply
             /\ IF got.raised = "none"
                THEN /\ volume' = got.value
                     /\ pc' = AfterVolume(dry_run)
                     /\ events' = sent
                     /\ sent_embed' = NoEmbed
                     /\ UNCHANGED <<idx, price, last_delivery, exit_code>>
                ELSE Except(sent, got.raised, d)
    /\ sent_request' = NoRequest
    /\ UNCHANGED <<config, results, total_required, available_eur, balance_reply,
                   status_reply, last_nonce>>

\* Lines 168-180: the dry-run branch.
DryRunReport ==
    /\ pc = "report"
    /\ \E d \in Deliveries :
         LET msg == send_discord_message(discord_webhook, d)
             ev  == Append(events, Notify("dry-run-result", idx))
         IN  IF msg.raised
             THEN Except(ev, "RequestException", d) /\ UNCHANGED results
             ELSE /\ events' = ev
                  /\ sent_embed' = create_dry_run_embed(strategies[idx].pair,
                                       strategies[idx].amount_eur, price, volume)
                  /\ last_delivery' = msg.delivery
                  /\ results' = results_append(results,
                                 [dry_run |-> TRUE,
                                  pair |-> strategies[idx].pair,
                                  amount_eur |-> strategies[idx].amount_eur,
                                  est_price |-> price,
                                  volume |-> volume])
                  /\ NextStrategy
    /\ sent_request' = NoRequest
    /\ last_reply' = NoReply
    /\ UNCHANGED <<config, total_required, available_eur, balance_reply,
                   status_reply, last_nonce>>

\* Lines 182-194: pass_market_order (98-118) and the reading of its reply.
PassMarketOrder ==
    /\ pc = "order"
    /\ \E t \in ClockValues, reply \in OrderReplies, d \in Deliveries :
         LET nonce == get_nonce(t)
             out   == order_outcome(reply)
             sent  == Append(events, Request("AddOrder", idx, out.raised # "none"))
             msg   == send_discord_message(discord_webhook, d)
             ev    == Append(sent, Notify(out.event, idx))
         IN  /\ last_nonce' = nonce
             /\ sent_request' = order_request[nonce, strategies[idx].pair, volume]
             /\ last_reply' = reply
             /\ IF out.raised # "none"
                THEN Except(sent, out.raised, d) /\ UNCHANGED results
                ELSE IF msg.raised
                THEN Except(ev, "RequestException", d) /\ UNCHANGED results
                ELSE /\ events' = ev
                     /\ sent_embed' = IF out.event = "order-failed"
                                      THEN create_error_embed(strategies[idx].pair, volume,
                                                              price, reply.error)
                                      ELSE create_success_embed(strategies[idx].pair, volume,
                                                                price, reply.txid)
                     /\ last_delivery' = msg.delivery
                     /\ results' = results_append(results, [error |-> reply.error, txid |-> reply.txid])
                     /\ NextStrategy
    /\ UNCHANGED <<config, total_required, available_eur, balance_reply, status_reply>>

(***************************************************************************)
(* __main__, lines 233-236: the completion message, then the end.          *)
(***************************************************************************)
SendCompletion ==
    /\ pc = "complete"
    /\ \E d \in Deliveries :
         LET msg == send_discord_message(discord_webhook, d)
         IN  /\ events' = Append(events, Notify("run-completed", 0))
             /\ sent_embed' = create_completion_embed
             /\ last_delivery' = msg.delivery
             /\ IF msg.raised THEN Exit(1) ELSE Exit(0)
    /\ sent_request' = NoRequest
    /\ last_reply' = NoReply
    /\ UNCHANGED <<config, idx, price, volume, results, total_required, available_eur,
                   balance_reply, status_reply, last_nonce>>

(***************************************************************************)
(* eur_to_volume on its own, lines 121-124: one call for an amount, with   *)
(* the ask price its Ticker request returns.  The prices are ones for      *)
(* which amount / price is either no tie at the eighth decimal or a binary *)
(* fraction, so that the float quotient rounds as the exact one does.      *)
(***************************************************************************)
VolumePrices == {3, 6, 7, 500, 512, 40000}

InitVolume ==
    /\ strategies \in { << [pair |-> <<"X", "E">>, amount_eur |-> a] >> : a \in 1..MaxAmount }
    /\ dry_run = TRUE
    /\ discord_webhook = ""
    /\ pc = "eur_to_volume"
    /\ idx = 1
    /\ price = 0
    /\ volume = 0
    /\ results = <<>>
    /\ total_required = 0
    /\ available_eur = -1
    /\ balance_reply = "none"
    /\ status_reply = "none"
    /\ last_nonce = -1
    /\ sent_request = NoRequest
    /\ last_reply = NoReply
    /\ sent_embed = NoEmbed
    /\ events = <<>>
    /\ last_delivery = "none"
    /\ exit_code = -1

EurToVolumeCall ==
    /\ pc = "eur_to_volume"
    /\ \E p \in VolumePrices :
         LET reply == [kind |-> "ask", ask |-> p]
             got   == eur_to_volume(reply, strategies[idx].amount_eur)
         IN  /\ last_reply' = reply
             /\ volume' = got.value
             /\ pc' = "returned"
    /\ UNCHANGED <<config, idx, price, results, total_required, available_eur,
                   balance_reply, status_reply, last_nonce, sent_request, sent_embed,
                   events, last_delivery, exit_code>>

NextVolume == EurToVolumeCall

SpecVolume == InitVolume /\ [][NextVolume]_vars

Next ==
    \/ EnsureSufficientFunds
    \/ SendStart
    \/ CheckKrakenStatus
    \/ FetchPrice
    \/ ComputeVolume
    \/ DryRunReport
    \/ PassMarketOrder
    \/ SendCompletion

Spec == Init /\ [][Next]_vars

\* The program is one thread and every request it makes has a timeout
\* (timeout=15 or 30 on each requests call), so a step that can be taken is
\* taken.
FairSpec == Spec /\ WF_vars(Next)

(***************************************************************************)
(* Properties.                                                             *)
(***************************************************************************)
EventIndexes == 1..Len(events)

IsRequest(e, what) == e.kind = "request" /\ e.what = what
IsNotify(e, what) == e.kind = "notify" /\ e.what = what

\* A Ticker or AddOrder request: a strategy is being processed.
IsStrategyRequest(e) == IsRequest(e, "Ticker") \/ IsRequest(e, "AddOrder")

\* execute_strategies has returned.
LoopReturned == pc = "complete" \/ (pc = "exit" /\ status_reply = "online")

\* C1: the balance gate comes first.  Every Ticker or AddOrder request is
\* preceded by the Balance request, the total it was compared with is the sum
\* of amount_eur over all strategies, and the balance it returned was enough
\* (not available + epsilon < required); when the balance is not enough, no
\* strategy is processed: no Ticker or AddOrder request, no result, and the
\* process has ended.
C1_GateBeforeOrders ==
    /\ \A i \in EventIndexes :
         IsStrategyRequest(events[i]) =>
            /\ \E j \in 1..(i - 1) : IsRequest(events[j], "Balance")
            /\ available_eur >= 0
            /\ total_required = SumAmounts(strategies)
            /\ ~(available_eur + Epsilon < total_required)
    /\ (available_eur >= 0 /\ available_eur + Epsilon < SumAmounts(strategies)) =>
            /\ \A i \in EventIndexes : ~IsStrategyRequest(events[i])
            /\ results = <<>>
            /\ idx = 0
            /\ pc = "exit"

\* The gate found 0 available for 3 required and the run was stopped.
C1_Witness ==
    /\ available_eur = 0
    /\ total_required = 3
    /\ pc = "exit"
    /\ \E i \in EventIndexes : IsNotify(events[i], "insufficient-funds")

\* C2: a fault in one strategy stays in that strategy.  Once the loop has
\* been entered the process never ends with a failure status, every strategy
\* whose processing raised is behind the loop's position, no result was
\* recorded for it, and when execute_strategies has returned every strategy
\* of the list has been processed (its price was requested).
C2_FailureIsolation ==
    status_reply = "online" =>
        /\ exit_code # 1
        /\ \A i \in EventIndexes :
             IsNotify(events[i], "exception") =>
                /\ events[i].strat < idx
                /\ \E j \in 1..(i - 1) : events[j].strat = events[i].strat /\ events[j].faulted
        /\ LoopReturned =>
             \A k \in 1..Len(strategies) :
                \E i \in EventIndexes : IsRequest(events[i], "Ticker") /\ events[i].strat = k

\* The first strategy faulted, the second one placed its order, and the run
\* completed.
C2_Witness ==
    /\ Len(strategies) = 2
    /\ \E i \in EventIndexes : IsNotify(events[i], "exception") /\ events[i].strat = 1
    /\ \E i \in EventIndexes : IsNotify(events[i], "order-success") /\ events[i].strat = 2
    /\ pc = "exit"
    /\ exit_code = 0

\* C3: execute_strategies returns one result record per strategy.
C3_OneResultPerStrategy ==
    LoopReturned => Len(results) = Len(strategies)

\* The number of Ticker requests of strategy k that returned a price.
TickersOk(k) ==
    Cardinality({ i \in EventIndexes :
                    IsRequest(events[i], "Ticker") /\ events[i].strat = k /\ ~events[i].faulted })

\* Strategy k obtained a price (line 164 returned).
PriceObtained(k) == TickersOk(k) >= 1

\* Strategy k obtained a price and a volume (lines 164 and 165 returned).
VolumeObtained(k) == TickersOk(k) = 2

NoAddOrder == \A i \in EventIndexes : ~IsRequest(events[i], "AddOrder")

\* In a dry run no AddOrder request is sent, and the results are the
\* simulated records of the strategies that satisfy Obtained, in order: each
\* carries the strategy's pair and amount, a price the exchange gave and the
\* volume of that amount at a (non-zero) price the exchange gave.
DryRunResults(Obtained(_)) ==
    dry_run =>
        /\ NoAddOrder
        /\ Len(results) = Cardinality({ k \in 1..(idx - 1) : Obtained(k) })
        /\ \A k \in 1..(idx - 1) :
             Obtained(k) =>
                LET r == results[Cardinality({ j \in 1..k : Obtained(j) })]
                IN  /\ r.dry_run
                    /\ r.pair = strategies[k].pair
                    /\ r.amount_eur = strategies[k].amount_eur
                    /\ r.est_price \in Prices
                    /\ \E p \in Prices \ {0} :
                         r.volume = RoundHalfEven(r.amount_eur * VolumeScale, p)

\* C4 as stated: in a dry run no AddOrder request is sent, and every
\* strategy that obtains a price yields a simulated result.
C4_DryRunEveryPricedStrategy == DryRunResults(PriceObtained)

\* C4 as amended: in a dry run no AddOrder request is sent, and every
\* strategy for which both the price fetch and the volume computation (a
\* second price fetch) succeed yields a simulated result carrying its pair,
\* its amount, the price fetched first and the computed volume.
C4_DryRunNoOrder == DryRunResults(VolumeObtained)

\* A dry run of two strategies has ended: the first lost its second price
\* fetch, the second was simulated.
C4_Witness ==
    /\ dry_run
    /\ Len(strategies) = 2
    /\ PriceObtained(1) /\ ~VolumeObtained(1)
    /\ VolumeObtained(2)
    /\ Len(results) = 1
    /\ pc = "exit"

\* C5: every nonce is strictly greater than the one before it.  A step taken
\* at line 182 calls get_nonce; last_nonce is then the nonce of the Balance
\* request or of the previous AddOrder request.
C5_NonceStrictlyIncreasing == [][pc = "order" => last_nonce' > last_nonce]_vars

\* C6: a failed gate ends the run.  When the balance fetch returned an error
\* list or failed in transport, or the system status is not "online", no
\* strategy is processed (no Ticker or AddOrder request, no result), no
\* run-completed event is emitted and the process has ended with status 1.
C6_GateFailureFatal ==
    (balance_reply \in {"error_list", "transport_failure"} \/ status_reply \notin {"none", "online"}) =>
        /\ pc = "exit"
        /\ exit_code = 1
        /\ results = <<>>
        /\ \A i \in EventIndexes :
             ~IsStrategyRequest(events[i]) /\ ~IsNotify(events[i], "run-completed")

\* The exchange reported "maintenance" and the process ended.
C6_Witness == status_reply = "maintenance" /\ pc = "exit" /\ exit_code = 1

\* A run stopped before the loop: by the balance gate or by the status check.
GateAborted ==
    /\ pc = "exit"
    /\ exit_code = 1
    /\ \/ balance_reply \in {"error_list", "transport_failure"}
       \/ (available_eur >= 0 /\ available_eur + Epsilon < total_required)
       \/ status_reply \notin {"none", "online"}

\* C7: every run stopped before the loop has notified the abort (an
\* exception or insufficient-funds event sent outside the loop).
C7_AbortNotified ==
    GateAborted =>
        \E i \in EventIndexes :
            /\ events[i].strat = 0
            /\ IsNotify(events[i], "exception") \/ IsNotify(events[i], "insufficient-funds")

\* C8: a notification whose delivery fails changes nothing.  Whenever a step
\* calls send_discord_message and the POST comes back with an error status
\* or fails in transport, the step ends as the event alone decides: after
\* run-started the status check is next, after run-completed the process
\* ends with status 0, after a strategy's event the loop moves to the next
\* strategy (with one more result unless the event is an exception), and an
\* abort event ends the process as it would have anyway.
C8_DeliveryFailureHarmless ==
    [][ (/\ Len(events') > Len(events)
         /\ events'[Len(events')].kind = "notify"
         /\ last_delivery' \in {"http_error", "transport_error"})
        => LET e == events'[Len(events')]
           IN  CASE e.what = "run-started" ->
                      pc' = "status" /\ exit_code' = -1
                 [] e.what = "run-completed" ->
                      pc' = "exit" /\ exit_code' = 0
                 [] e.strat > 0 ->
                      /\ idx' = idx + 1
                      /\ pc' = IF idx < Len(strategies) THEN "price" ELSE "complete"
                      /\ exit_code' = -1
                      /\ Len(results') = Len(results) + (IF e.what = "exception" THEN 0 ELSE 1)
                 [] OTHER ->
                      pc' = "exit" /\ exit_code' = 1 ]_vars

\* The order-success message of the first strategy failed in transport and
\* the loop is at the second strategy, the result recorded.
C8_Witness ==
    /\ last_delivery = "transport_error"
    /\ events # <<>>
    /\ IsNotify(events[Len(events)], "order-success")
    /\ pc = "price"
    /\ idx = 2
    /\ Len(results) = 1

\* C9: the text a private request's signature is computed over is the body
\* that is sent.
C9_SignedTextIsBody == sent_request.signed = sent_request.body

\* The events that come with a result record.
IsResultEvent(e) ==
    e.kind = "notify" /\ e.what \in {"dry-run-result", "order-success", "order-failed"}

\* C10: strategies are processed in configuration order, one at a time.  In
\* the sequence of requests and notifications the strategies never go back;
\* before the first request of a strategy every earlier strategy has had its
\* notification; and the result records are those of the result events, in
\* the same order.
C10_ConfigurationOrder ==
    /\ \A p, q \in EventIndexes :
         (p < q /\ events[p].strat > 0 /\ events[q].strat > 0) => events[p].strat <= events[q].strat
    /\ \A q \in EventIndexes :
         events[q].kind = "request" =>
            \A k \in 1..(events[q].strat - 1) :
               \E p \in 1..(q - 1) : events[p].kind = "notify" /\ events[p].strat = k
    /\ LET produced == SelectSeq(events, IsResultEvent)
       IN  /\ Len(results) = Len(produced)
           /\ \A j \in 1..Len(produced) :
                /\ \A i \in 1..(j - 1) : produced[i].strat < produced[j].strat
                /\ IF dry_run
                   THEN /\ results[j].pair = strategies[produced[j].strat].pair
                        /\ results[j].amount_eur = strategies[produced[j].strat].amount_eur
                   ELSE (results[j].error # <<>>) <=> (produced[j].what = "order-failed")

\* Two different strategies were both simulated and the run has ended.
C10_Witness ==
    /\ Len(strategies) = 2
    /\ strategies[1] # strategies[2]
    /\ Len(results) = 2
    /\ dry_run
    /\ pc = "exit"


(***************************************************************************)
(* C11: the outcome of a live order.                                       *)
(***************************************************************************)
LastEvent == events[Len(events)]

\* The last step placed an order and a response came back (no timeout).
OrderResponseReceived ==
    last_reply.kind \in {"not_json", "not_dict", "bad_result", "dict"}

BalanceRead == last_reply.kind = "json" /\ last_reply.error = <<>>

\* ZEUR if the reply has it, else EUR, else 0.
ReportedBalance ==
    IF "ZEUR" \in DOMAIN last_reply.result THEN last_reply.result["ZEUR"]
    ELSE IF "EUR" \in DOMAIN last_reply.result THEN last_reply.result["EUR"]
    ELSE 0

InsufficientFundsAbort ==
    /\ pc = "exit"
    /\ exit_code = 1
    /\ LastEvent = Notify("insufficient-funds", 0)

\* C12: the gate takes ZEUR if present, else EUR, else 0 as the available
\* balance, and aborts, with an insufficient-funds embed carrying (required,
\* available), exactly when available + epsilon < required; otherwise the run
\* goes on to the start message.
C12_GateDecision ==
    BalanceRead =>
        /\ available_eur = ReportedBalance
        /\ total_required = SumAmounts(strategies)
        /\ InsufficientFundsAbort <=> (ReportedBalance + Epsilon < SumAmounts(strategies))
        /\ InsufficientFundsAbort =>
               sent_embed = [what |-> "insufficient-funds",
                             required |-> SumAmounts(strategies),
                             available |-> ReportedBalance]
        /\ ~InsufficientFundsAbort => (pc = "start" /\ exit_code = -1 /\ sent_embed = NoEmbed)

\* The gate aborts on ZEUR although the EUR entry would have covered the run.
C12_Witness ==
    /\ BalanceRead
    /\ DOMAIN last_reply.result = {"ZEUR", "EUR"}
    /\ last_reply.result["ZEUR"] + Epsilon < total_required
    /\ last_reply.result["EUR"] >= total_required
    /\ InsufficientFundsAbort
    /\ sent_embed.available = last_reply.result["ZEUR"]

\* The gate passes a balance one unit (5e-9 EUR) short of the requirement.
C12_WithinEpsilon ==
    /\ BalanceRead
    /\ ReportedBalance = total_required - 1
    /\ pc = "start"


(***************************************************************************)
(* C13: the request signature.                                             *)
(***************************************************************************)
\* C13: the API-Sign header of every private request is
\* base64(HMAC-SHA512(key, path || SHA256(nonce || body))), with the key the
\* base64-decoded secret, the nonce before the body inside the inner hash, and
\* the path before that hash in the signed message.
C13_SignatureComposition ==
    sent_request.path # "" =>
        sent_request.sign =
            [fn |-> "b64encode",
             of |-> [fn  |-> "hmac_sha512",
                     key |-> "key-bytes",
                     msg |-> << sent_request.path,
                                [fn |-> "sha256",
                                 of |-> IntStr(last_nonce) \o sent_request.signed] >>]]

\* A signed AddOrder request whose nonce differs from the one of the Balance
\* request.
C13_Witness ==
    /\ sent_request.path = "/0/private/AddOrder"
    /\ last_nonce = 1
    /\ sent_request.sign.of.msg[1] = "/0/private/AddOrder"
    /\ Head(sent_request.sign.of.msg[2].of) = "1"


(***************************************************************************)
(* C14: the volume of eur_to_volume.                                       *)
(***************************************************************************)
\* C14: eur_to_volume returns amount / price, for the ask price fetched in
\* that call, rounded to 8 decimals: the returned volume is within half a
\* unit of 10^-8 of the quotient, and even when exactly half a unit away.
C14_VolumeRounded ==
    pc = "returned" =>
        LET amount == strategies[idx].amount_eur
            ask    == last_reply.ask
            twice  == 2 * (volume * ask - amount * VolumeScale)
        IN  /\ -ask <= twice
            /\ twice <= ask
            /\ (twice = ask \/ twice = -ask) => volume % 2 = 0

\* 1 at price 500 (the ratio of 100 at 50000) gives 0.00200000.
C14_Witness ==
    /\ pc = "returned"
    /\ strategies[idx].amount_eur = 1
    /\ last_reply.ask = 500
    /\ volume = 200000

\* A quotient that is rounded up: 2 / 3 gives 0.66666667.
C14_RoundedUp ==
    /\ pc = "returned"
    /\ strategies[idx].amount_eur = 2
    /\ last_reply.ask = 3
    /\ volume = 66666667


(***************************************************************************)
(* C15: the lifecycle of a run.                                            *)
(***************************************************************************)
GatePassed ==
    /\ balance_reply = "result"
    /\ ~(available_eur + Epsilon < total_required)

Completed == pc = "exit" /\ exit_code = 0 /\ LastEvent = Notify("run-completed", 0)

\* C15: run-started is emitted once, only after the balance gate has passed
\* and before any strategy is processed, and no strategy is processed without
\* it; run-completed is the last event and comes only after every strategy
\* has been processed; after an abort no strategy is processed and no
\* run-completed is emitted; a run that has ended is either aborted or
\* completed, never both.
C15_Lifecycle ==
    /\ \A i \in EventIndexes :
         IsNotify(events[i], "run-started") =>
            /\ GatePassed
            /\ \E j \in 1..(i - 1) : IsRequest(events[j], "Balance")
            /\ \A j \in 1..(i - 1) : events[j].strat = 0
            /\ \A j \in EventIndexes : IsNotify(events[j], "run-started") => j = i
    /\ \A i \in EventIndexes :
         events[i].strat >= 1 =>
            \E j \in 1..(i - 1) : IsNotify(events[j], "run-started")
    /\ \A i \in EventIndexes :
         IsNotify(events[i], "run-completed") =>
            /\ i = Len(events)
            /\ \A k \in 1..Len(strategies) :
                 \E j \in 1..(i - 1) : events[j].kind = "notify" /\ events[j].strat = k
    /\ GateAborted =>
         \A i \in EventIndexes :
            events[i].strat = 0 /\ ~IsNotify(events[i], "run-completed")
    /\ pc = "exit" => (GateAborted /\ ~Completed) \/ (Completed /\ ~GateAborted)
    /\ pc # "exit" => exit_code = -1 /\ \A i \in EventIndexes : ~IsNotify(events[i], "run-completed")

\* A run of two strategies that completed although the first one faulted.
C15_Witness ==
    /\ Completed
    /\ Len(strategies) = 2
    /\ \E i \in EventIndexes : IsNotify(events[i], "exception") /\ events[i].strat = 1
    /\ \E i \in EventIndexes : events[i].kind = "notify" /\ events[i].strat = 2


(***************************************************************************)
(* C16: termination.                                                       *)
(***************************************************************************)
\* Every strategy has had its notification.
AllProcessed ==
    \A k \in 1..Len(strategies) :
        \E i \in EventIndexes : events[i].kind = "notify" /\ events[i].strat = k

\* C16: once the gate has passed and the status is "online", the run ends
\* completed: every strategy gets processed and run-completed is emitted,
\* whatever the strategies' price fetches and orders do.
C16_Terminates ==
    (GatePassed /\ status_reply = "online") ~> (Completed /\ AllProcessed)

\* A completed run in which every request of the loop failed.
C16_Witness ==
    /\ Completed
    /\ AllProcessed
    /\ strategies # <<>>
    /\ results = <<>>
    /\ \A i \in EventIndexes : IsStrategyRequest(events[i]) => events[i].faulted


(***************************************************************************)
(* C17: the price and the volume of an outcome.                            *)
(***************************************************************************)
\* C17: in every dry-run-result, order-success or order-failed embed the
\* volume is the strategy's amount divided by the price of that same embed,
\* rounded to 8 decimals, whatever prices the Ticker requests returned.
C17_ReportedPriceGivesVolume ==
    sent_embed.what \in {"dry-run-result", "order-success", "order-failed"} =>
        /\ sent_embed.price # 0
        /\ sent_embed.volume =
               RoundHalfEven(strategies[LastEvent.strat].amount_eur * VolumeScale,
                             sent_embed.price)


(***************************************************************************)
(* C18: orders are never repeated.                                         *)
(***************************************************************************)
AddOrderIndexes == { i \in EventIndexes : IsRequest(events[i], "AddOrder") }

\* C18: a run sends at most one AddOrder request for each configured
\* strategy, whether the request succeeds, returns errors or fails, so at most
\* as many AddOrder requests as there are strategies.
C18_OneOrderPerStrategy ==
    /\ \A i \in AddOrderIndexes : events[i].strat \in 1..Len(strategies)
    /\ \A i, j \in AddOrderIndexes : events[i].strat = events[j].strat => i = j
    /\ Cardinality(AddOrderIndexes) <= Len(strategies)

\* A run that went on to the second strategy's order after the first order
\* had timed out.
C18_Witness ==
    /\ Cardinality(AddOrderIndexes) = 2
    /\ \E i \in AddOrderIndexes : events[i].strat = 1 /\ events[i].faulted
    /\ \E i \in AddOrderIndexes : events[i].strat = 2

(***************************************************************************)
(* C19: one notification per strategy.                                     *)
(***************************************************************************)
StrategyNotifications(k) ==
    { i \in EventIndexes : events[i].kind = "notify" /\ events[i].strat = k }

\* The strategies the loop has finished with.
Processed == IF pc \in {"complete", "exit"} /\ status_reply = "online"
             THEN 1..Len(strategies)
             ELSE 1..(idx - 1)

\* C19: every processed strategy has sent exactly one notification, of one of
\* the kinds dry-run-result, order-success, order-failed and exception (so an
\* order outcome is never followed by an exception for the same strategy, and
\* no strategy passes silently); a strategy not yet finished has sent none.
C19_OneNotificationPerStrategy ==
    /\ \A k \in Processed :
         /\ Cardinality(StrategyNotifications(k)) = 1
         /\ \A i \in StrategyNotifications(k) :
              events[i].what \in {"dry-run-result", "order-success", "order-failed", "exception"}
    /\ \A k \in (1..Len(strategies)) \ Processed : StrategyNotifications(k) = {}
    /\ \A i \in EventIndexes :
         events[i].kind = "notify" /\ events[i].strat = 0 =>
             events[i].what \in {"run-started", "run-completed", "insufficient-funds", "exception"}

\* A live run whose first strategy failed at the exchange and whose second
\* one raised, the webhook refusing both messages.
C19_Witness ==
    /\ Completed
    /\ ~dry_run
    /\ Len(strategies) = 2
    /\ \E i \in StrategyNotifications(1) : events[i].what = "order-failed"
    /\ \E i \in StrategyNotifications(2) : events[i].what = "exception"
    /\ last_delivery = "transport_error"

====
